---- MODULE Spec2Model ----
(***************************************************************************)
(* The relay server of BeyondConversation (src/unnamed/part_000): one      *)
(* browser socket paired with one upstream provider socket per connection, *)
(* the commit/response gate driven by client.flush, and the normalizer of  *)
(* the provider's line-delimited events.                                   *)
(*                                                                         *)
(* Every handler of the source is one action.  Strings whose content the   *)
(* handlers inspect (transcript text) are sequences of one-character       *)
(* strings; an audio payload is represented by its length, the only thing  *)
(* the relay reads of it.  Transport establishment is outside the model's  *)
(* scope: client messages are handled once the upstream socket is open.    *)
(*                                                                         *)
(* The browser page (src/app/page.tsx) is modelled beside it: the frame    *)
(* accumulator of the audio worklet handler, of which only the lengths of  *)
(* the sample buffers matter, and the pure helpers composeTranscript,      *)
(* smoothInterim and downsampleTo24kHz, applied to bounded inputs.  As on  *)
(* the relay side, the page's socket is taken to be open while recording.  *)
(***************************************************************************)
EXTENDS Integers, Sequences, FiniteSets, TLC

\* ------------------------------------------------------------------ bounds
MaxEstimate == 9600
MaxBatch == 2
MaxGateBatch == 1     \* lines of one provider frame when two connections run
MaxSamples == 7200    \* resampled samples received in one recording
MaxStr == 2           \* characters of a string given to a pure helper
MaxFinalStr == 1      \* characters of one final given to composeTranscript
MaxFinals == 2        \* finals given to composeTranscript
MaxChunk == 4         \* samples given to downsampleTo24kHz

\* --------------------------------------------------------------- constants
MIN_B64_FOR_100MS == 6400
THRESHOLD_SAMPLES_24K == 2400
TargetRate == 24000
DefaultRate == 48000

Conns == {1, 2}
AudioLens == {3200, 6400}
Languages == {"en", "ko"}

\* Source sample rates (their ratio to 24000 is exact in binary floating
\* point), lengths of the sample blocks the worklet posts, sample values and
\* the characters of the strings given to the pure helpers
SrcRates == {24000, 36000, 48000}
ChunkLens == {800, 1600, 2400, 4800}
SampleValues == {0, 1, 3}
Chars == {"a", "b", " "}

\* Transcript texts: "", " ", "hel", " lo "
Texts == { <<>>, <<" ">>, <<"h", "e", "l">>, <<" ", "l", "o", " ">> }

VARIABLES
    approxB64SinceCommit,  \* module-level counter (line 23)
    activeResponse,        \* module-level flag (line 24)
    language,              \* per-connection closure variable (line 29)
    clientSock,            \* the browser socket of each connection
    openaiSock,            \* the upstream socket of each connection
    wire,                  \* the provider frame being written / in flight
    last,                  \* the handler that ran last, its input and pre-state
    up,                    \* what that handler sent upstream
    down,                  \* what that handler sent to the browser
    outstanding,           \* per connection: a response.create was issued on it
                           \* and no response.done of it was handled since
    sinceCommit,           \* audio appended per connection since its last
                           \* commit (saturates at MIN_B64_FOR_100MS)
    queued,                \* a commit was issued while a request was in
                           \* flight and no response.create was issued since
    recording,             \* page: the worklet node exists (page.tsx 343-384)
    sampleRate,            \* page: sampleRateRef.current (page.tsx 157)
    pendingSamples,        \* page: length of pendingSamplesRef.current, 0 for
                           \* null (page.tsx 160)
    sent,                  \* page: what the last page handler put on wsRef
    received,              \* page: resampled samples received this recording
    emitted,               \* page: samples sent in frames this recording
    call                   \* page: the last call of a pure helper, its
                           \* arguments and its result

relayVars == << approxB64SinceCommit, activeResponse, language, clientSock,
                openaiSock, wire, last, up, down, outstanding, sinceCommit,
                queued >>

pageVars == << recording, sampleRate, pendingSamples, sent, received, emitted, call >>

vars == << relayVars, pageVars >>

\* ---------------------------------------------------------------- strings
IsSpace(ch) == ch = " "

RECURSIVE TrimStart(_)
TrimStart(s) ==
    IF s = <<>> THEN <<>>
    ELSE IF IsSpace(Head(s)) THEN TrimStart(Tail(s)) ELSE s

RECURSIVE TrimEnd(_)
TrimEnd(s) ==
    IF s = <<>> THEN <<>>
    ELSE IF IsSpace(s[Len(s)]) THEN TrimEnd(SubSeq(s, 1, Len(s) - 1)) ELSE s

\* String.prototype.trim
Trim(s) == TrimEnd(TrimStart(s))

Min(a, b) == IF a < b THEN a ELSE b

\* ------------------------------------------------------- wire vocabularies
\* Upstream instructions (relay -> provider)
SessionUpdate(lang) == [type |-> "session.update", language |-> lang]
AudioAppend(n) == [type |-> "input_audio_buffer.append", audio |-> n]
Commit == [type |-> "input_audio_buffer.commit"]
ResponseCreate == [type |-> "response.create"]

\* Relay -> browser
Transcript(ch, t) == [type |-> "transcript", channel |-> ch, text |-> t]
Pong(t) == [type |-> "pong", t |-> t]
Status(v) == [type |-> "status", value |-> v]

\* Browser -> relay.  parses = FALSE is a frame JSON.parse rejects.
ClientMsgs ==
    { [parses |-> TRUE, type |-> "config", language |-> l] : l \in Languages \cup {""} }
    \cup { [parses |-> TRUE, type |-> "client.audio.append", isString |-> TRUE, audio |-> n] :
             n \in AudioLens }
    \cup { [parses |-> TRUE, type |-> "client.audio.append", isString |-> FALSE, audio |-> 0] }
    \cup { [parses |-> TRUE, type |-> "client.flush"],
           [parses |-> TRUE, type |-> "ping", t |-> 7],
           [parses |-> TRUE, type |-> "other"],
           [parses |-> FALSE, type |-> ""] }

\* Provider -> relay lines.  `text` stands for the event's text-bearing field
\* (delta, text, the first string among part.text/content/transcript, or the
\* joined response.output_text); `sub` for delta.type of response.delta and
\* for whether response.output_text is a non-empty array.
Event(ty, sb, tx) == [kind |-> "event", type |-> ty, sub |-> sb, text |-> tx]
Garbage == [kind |-> "garbage", type |-> "", sub |-> "", text |-> <<>>]
Blank == [kind |-> "blank", type |-> "", sub |-> "", text |-> <<>>]

TextTypes == { "response.content_part.added", "response.content_part.done",
               "response.audio_transcript.delta", "response.audio_transcript.done",
               "response.text.delta", "response.text.done",
               "response.output_text.delta", "response.output_text.done" }
PlainTypes == { "response.created", "response.done", "error", "response.error",
                "session.created" }

Lines ==
    { Event(ty, "", tx) : ty \in TextTypes, tx \in Texts }
    \cup { Event("response.delta", "output_text.delta", tx) : tx \in Texts }
    \cup { Event("response.delta", "other", <<>>) }
    \cup { Event("response.completed", "output_text", tx) : tx \in Texts }
    \cup { Event("response.completed", "none", <<>>) }
    \cup { Event(ty, "", <<>>) : ty \in PlainTypes }
    \cup { Garbage, Blank }

\* The lines that matter to the gate: the lifecycle events and an event whose
\* branch returns from the handler.
GateLines ==
    { Event("response.created", "", <<>>),
      Event("response.done", "", <<>>),
      Event("response.content_part.done", "", <<"h", "e", "l">>) }

NoWire == [conn |-> 0, lines |-> <<>>]

\* The frames of one to MaxBatch lines over an alphabet
Frames(alphabet) == UNION { [1..k -> alphabet] : k \in 1..MaxBatch }

\* The frames a provider socket delivers while two connections share the gate
GateFrames == UNION { [1..k -> GateLines] : k \in 1..MaxGateBatch }

NoMsg == [parses |-> FALSE, type |-> ""]

Step(op, c, msg, data) ==
    [op |-> op, conn |-> c, msg |-> msg, data |-> data,
     approx |-> approxB64SinceCommit, active |-> activeResponse,
     queued |-> queued]

\* ------------------------------------------------ provider event normalizer
\* A done-shaped text forwarded without trimming
FinalTextRaw(t) == t

\* String(...).trim() of the final-channel branches (lines 153, 173, 185, 194, 197)
FinalText(t) == Trim(t)

\* The error branch forwarding the event as a transcript
ErrorSendForwarded(m) == << Transcript("final", m.text) >>

\* What the error / response.error branch sends to the browser (lines
\* 158-161): it logs and returns.
ErrorSend(m) == <<>>

\* The lifecycle branches with response.created not setting the flag
LifecycleFlagIgnoresCreated(m, act) ==
    IF m.type = "response.done" THEN FALSE ELSE act

\* The lifecycle branches with an error event clearing the flag
LifecycleFlagErrorClears(m, act) ==
    IF m.type = "response.created" THEN TRUE
    ELSE IF m.type \in {"response.done", "error", "response.error"} THEN FALSE
    ELSE act

\* The flag after the response.created / response.done branches (lines
\* 126-134)
LifecycleFlag(m, act) ==
    IF m.type = "response.created" THEN TRUE
    ELSE IF m.type = "response.done" THEN FALSE
    ELSE act

\* Leaving the handler on an event of a kind no branch matches
ReturnsOnUnmatched(m) ==
    m.type \in {"response.content_part.done", "error", "response.error",
                "session.created"}

\* The branches that end with `return` (lines 154, 160)
Returns(m) ==
    m.type \in {"response.content_part.done", "error", "response.error"}

\* One iteration of the for-loop body after JSON.parse succeeded (lines
\* 123-202): the flag after it, what it sends to the browser, and whether it
\* returns from the whole handler.
HandleEvent(m, act) ==
    LET a2 == LifecycleFlag(m, act)
        added == IF m.type = "response.content_part.added" /\ m.text # <<>>
                 THEN << Transcript("interim", m.text) >> ELSE <<>>
    IN  IF m.type = "response.content_part.done"
        THEN [active |-> a2, ret |-> Returns(m),
              send |-> IF m.text # <<>>
                       THEN << Transcript("final", FinalText(m.text)) >> ELSE <<>>]
        ELSE IF m.type = "error" \/ m.type = "response.error"
        THEN [active |-> a2, ret |-> Returns(m), send |-> ErrorSend(m)]
        ELSE
          LET audio ==
                IF m.type = "response.audio_transcript.delta"
                THEN IF m.text # <<>> THEN << Transcript("interim", m.text) >> ELSE <<>>
                ELSE IF m.type = "response.audio_transcript.done"
                THEN IF FinalText(m.text) # <<>>
                     THEN << Transcript("final", FinalText(m.text)) >> ELSE <<>>
                ELSE <<>>
              text ==
                IF m.type = "response.text.delta"
                THEN IF m.text # <<>> THEN << Transcript("interim", m.text) >> ELSE <<>>
                ELSE IF m.type = "response.text.done"
                THEN IF FinalText(m.text) # <<>>
                     THEN << Transcript("final", FinalText(m.text)) >> ELSE <<>>
                ELSE IF m.type = "response.output_text.delta"
                THEN IF m.text # <<>> THEN << Transcript("interim", m.text) >> ELSE <<>>
                ELSE IF m.type = "response.delta" /\ m.sub = "output_text.delta"
                THEN IF m.text # <<>> THEN << Transcript("interim", m.text) >> ELSE <<>>
                ELSE IF m.type = "response.output_text.done"
                THEN IF FinalText(m.text) # <<>>
                     THEN << Transcript("final", FinalText(m.text)) >> ELSE <<>>
                ELSE IF m.type = "response.completed" /\ m.sub = "output_text"
                THEN IF FinalText(m.text) # <<>>
                     THEN << Transcript("final", FinalText(m.text)) >> ELSE <<>>
                ELSE <<>>
          IN [active |-> a2, ret |-> Returns(m), send |-> added \o audio \o text]

\* text.split('\n').filter((l) => l.trim().length > 0)   (line 112)
NonBlank(lines) == SelectSeq(lines, LAMBDA l : l.kind # "blank")

\* The loop skipping a line that does not parse instead of leaving the loop
RECURSIVE RunLinesSkipsBad(_, _, _, _)
RunLinesSkipsBad(lines, act, out, dn) ==
    IF lines = <<>> THEN [active |-> act, down |-> out, done |-> dn]
    ELSE LET l == Head(lines) IN
         IF l.kind = "garbage" THEN RunLinesSkipsBad(Tail(lines), act, out, dn)
         ELSE LET r == HandleEvent(l, act)
                  d == dn \/ l.type = "response.done"
              IN IF r.ret
                 THEN [active |-> r.active, down |-> out \o r.send, done |-> d]
                 ELSE RunLinesSkipsBad(Tail(lines), r.active, out \o r.send, d)

\* The for-loop over the lines of one provider message (lines 114-203): a
\* line that does not parse breaks the loop, a returning branch ends the
\* handler.  `done` records whether a response.done was handled.
RECURSIVE RunLines(_, _, _, _)
RunLines(lines, act, out, dn) ==
    IF lines = <<>> THEN [active |-> act, down |-> out, done |-> dn]
    ELSE LET l == Head(lines) IN
         IF l.kind = "garbage" THEN [active |-> act, down |-> out, done |-> dn]
         ELSE LET r == HandleEvent(l, act)
                  d == dn \/ l.type = "response.done"
              IN IF r.ret
                 THEN [active |-> r.active, down |-> out \o r.send, done |-> d]
                 ELSE RunLines(Tail(lines), r.active, out \o r.send, d)

\* ------------------------------------------------------------ connections
\* WSS.on('connection') (lines 27-37)
Connection(c) ==
    /\ UNCHANGED << pageVars, queued >>
    /\ clientSock[c] = "none"
    /\ clientSock' = [clientSock EXCEPT ![c] = "open"]
    /\ openaiSock' = [openaiSock EXCEPT ![c] = "connecting"]
    /\ language' = [language EXCEPT ![c] = "en"]
    /\ last' = Step("connection", c, NoMsg, <<>>)
    /\ up' = <<>>
    /\ down' = <<>>
    /\ UNCHANGED << approxB64SinceCommit, activeResponse, wire, outstanding, sinceCommit >>

\* openai.on('open') (lines 39-50)
OpenaiOpen(c) ==
    /\ UNCHANGED << pageVars, queued >>
    /\ openaiSock[c] = "connecting"
    /\ openaiSock' = [openaiSock EXCEPT ![c] = "open"]
    /\ last' = Step("openai.open", c, NoMsg, <<>>)
    /\ up' = << SessionUpdate(language[c]) >>
    /\ down' = <<>>
    /\ UNCHANGED << approxB64SinceCommit, activeResponse, language, clientSock,
                    wire, outstanding, sinceCommit >>

\* closeAll (line 209), run by openai.on('close') and client.on('close')
CloseAll(c, op) ==
    /\ UNCHANGED << pageVars, queued >>
    /\ clientSock' = [clientSock EXCEPT ![c] = "closed"]
    /\ openaiSock' = [openaiSock EXCEPT ![c] = "closed"]
    /\ wire' = IF wire.conn = c THEN NoWire ELSE wire
    /\ last' = Step(op, c, NoMsg, <<>>)
    /\ up' = <<>>
    /\ down' = <<>>
    \* the closure of the connection is gone, and the bookkeeping about it
    /\ language' = [language EXCEPT ![c] = "en"]
    /\ outstanding' = [outstanding EXCEPT ![c] = FALSE]
    /\ sinceCommit' = [sinceCommit EXCEPT ![c] = 0]
    /\ UNCHANGED << approxB64SinceCommit, activeResponse >>

\* client.on('close', closeAll) (line 212)
ClientClose(c) ==
    /\ clientSock[c] = "open"
    /\ CloseAll(c, "client.close")

\* openai.on('close', closeAll) (line 211)
OpenaiClose(c) ==
    /\ openaiSock[c] \in {"connecting", "open"}
    /\ CloseAll(c, "openai.close")

\* openai.on('error') (line 210)
OpenaiError(c) ==
    /\ UNCHANGED << pageVars, queued >>
    /\ openaiSock[c] \in {"connecting", "open"}
    /\ last' = Step("openai.error", c, NoMsg, <<>>)
    /\ up' = <<>>
    /\ down' = << Status("provider-error") >>
    /\ UNCHANGED << approxB64SinceCommit, activeResponse, language, clientSock,
                    openaiSock, wire, outstanding, sinceCommit >>

\* ------------------------------------------------------- browser -> relay
\* The early return of the flush branch left out
BelowThresholdNever(n) == FALSE

\* The threshold compared with <=
BelowThresholdInclusive(n) == n <= MIN_B64_FOR_100MS

\* approxB64SinceCommit < MIN_B64_FOR_100MS (line 80)
BelowThreshold(n) == n < MIN_B64_FOR_100MS

\* The flush branch issuing response.create whatever the flag
FlushAlwaysCreates(approx, act) ==
    IF BelowThreshold(approx)
    THEN [up |-> <<>>, approx |-> approx, active |-> act]
    ELSE [up |-> << Commit, ResponseCreate >>, approx |-> 0, active |-> TRUE]

\* The flush branch resetting the counter after every commit
FlushAlwaysResets(approx, act) ==
    IF BelowThreshold(approx)
    THEN [up |-> <<>>, approx |-> approx, active |-> act]
    ELSE IF ~act
    THEN [up |-> << Commit, ResponseCreate >>, approx |-> 0, active |-> TRUE]
    ELSE [up |-> << Commit >>, approx |-> 0, active |-> act]

\* The client.flush branch (lines 77-100): what it sends upstream and the
\* counter and flag it leaves.
Flush(approx, act) ==
    IF BelowThreshold(approx)
    THEN [up |-> <<>>, approx |-> approx, active |-> act]
    ELSE IF ~act
    THEN [up |-> << Commit, ResponseCreate >>, approx |-> 0, active |-> TRUE]
    ELSE [up |-> << Commit >>, approx |-> approx, active |-> act]

Range(s) == { s[i] : i \in DOMAIN s }

\* The dispatch with a message of no listed type falling into the flush branch
DispatchElseFlush(msg) ==
    IF ~msg.parses THEN "ignored"
    ELSE IF msg.type = "config" /\ msg.language # "" THEN "config"
    ELSE IF msg.type = "client.audio.append" /\ msg.isString THEN "append"
    ELSE IF msg.type = "ping" THEN "ping"
    ELSE "flush"

\* Which branch of client.on('message') a frame takes (lines 54-105): a frame
\* JSON.parse rejects lands in the catch, a message no `if` matches falls
\* through to the end of the try block.
Dispatch(msg) ==
    IF ~msg.parses THEN "ignored"
    ELSE IF msg.type = "config" /\ msg.language # "" THEN "config"
    ELSE IF msg.type = "client.audio.append" /\ msg.isString THEN "append"
    ELSE IF msg.type = "client.flush" THEN "flush"
    ELSE IF msg.type = "ping" THEN "ping"
    ELSE "ignored"

\* The append branch forwarding the payload without counting it
AppendAudioUncounted(approx, n) == [up |-> << AudioAppend(n) >>, approx |-> approx]

\* The client.audio.append branch (lines 69-76): the counter grows by the
\* payload's length and the payload goes upstream.
AppendAudio(approx, n) == [up |-> << AudioAppend(n) >>, approx |-> approx + n]

\* client.on('message') (lines 53-106)
ClientOnMessage(c, msg) ==
    /\ UNCHANGED pageVars
    /\ clientSock[c] = "open"
    /\ openaiSock[c] = "open"
    /\ last' = Step("client.message", c, msg, <<>>)
    /\ UNCHANGED << clientSock, openaiSock, wire >>
    /\ LET branch == Dispatch(msg) IN
       IF branch = "config"
       THEN /\ language' = [language EXCEPT ![c] = msg.language]
            /\ up' = << SessionUpdate(msg.language) >>
            /\ down' = <<>>
            /\ UNCHANGED << approxB64SinceCommit, activeResponse,
                            outstanding, sinceCommit, queued >>
       ELSE IF branch = "append"
       THEN LET a == AppendAudio(approxB64SinceCommit, msg.audio) IN
            /\ a.approx <= MaxEstimate
            /\ approxB64SinceCommit' = a.approx
            /\ up' = a.up
            /\ down' = <<>>
            /\ sinceCommit' = [sinceCommit EXCEPT
                                 ![c] = Min(@ + msg.audio, MIN_B64_FOR_100MS)]
            /\ UNCHANGED << activeResponse, language, outstanding, queued >>
       ELSE IF branch = "flush"
       THEN LET f == Flush(approxB64SinceCommit, activeResponse) IN
            /\ up' = f.up
            /\ approxB64SinceCommit' = f.approx
            /\ activeResponse' = f.active
            /\ down' = <<>>
            /\ sinceCommit' = IF Commit \in Range(f.up)
                              THEN [sinceCommit EXCEPT ![c] = 0] ELSE sinceCommit
            /\ outstanding' = IF ResponseCreate \in Range(f.up)
                              THEN [outstanding EXCEPT ![c] = TRUE] ELSE outstanding
            /\ queued' = IF ResponseCreate \in Range(f.up) THEN FALSE
                         ELSE IF Commit \in Range(f.up) THEN TRUE
                         ELSE queued
            /\ UNCHANGED language
       ELSE IF branch = "ping"
       THEN /\ up' = <<>>
            /\ down' = << Pong(msg.t) >>
            /\ UNCHANGED << approxB64SinceCommit, activeResponse, language,
                            outstanding, sinceCommit, queued >>
       ELSE /\ up' = <<>>
            /\ down' = <<>>
            /\ UNCHANGED << approxB64SinceCommit, activeResponse, language,
                            outstanding, sinceCommit, queued >>

\* ------------------------------------------------------ provider -> relay
\* The provider adds one line to the frame it is sending on connection c.
ProviderWrite(c, line) ==
    /\ UNCHANGED << pageVars, queued >>
    /\ openaiSock[c] = "open"
    /\ wire.conn \in {0, c}
    /\ Len(wire.lines) < MaxBatch
    /\ wire' = [conn |-> c, lines |-> Append(wire.lines, line)]
    /\ last' = Step("provider.write", c, NoMsg, <<>>)
    /\ up' = <<>>
    /\ down' = <<>>
    /\ UNCHANGED << approxB64SinceCommit, activeResponse, language, clientSock,
                    openaiSock, outstanding, sinceCommit >>

\* openai.on('message') (lines 109-207), data being the lines of the frame
OpenaiOnMessage(c, data) ==
    /\ UNCHANGED << pageVars, queued >>
    /\ openaiSock[c] = "open"
    /\ LET r == RunLines(NonBlank(data), activeResponse, <<>>, FALSE) IN
         /\ activeResponse' = r.active
         /\ down' = r.down
         /\ outstanding' = IF r.done THEN [outstanding EXCEPT ![c] = FALSE]
                           ELSE outstanding
    /\ last' = Step("openai.message", c, NoMsg, data)
    /\ wire' = NoWire
    /\ up' = <<>>
    /\ UNCHANGED << approxB64SinceCommit, language, clientSock, openaiSock,
                    sinceCommit >>

\* ============================================================ browser page
\* -------------------------------------------------------- pure helpers
NoCall == [fn |-> "none"]

\* Array.prototype.join(' ')
RECURSIVE Join(_)
Join(ss) ==
    IF ss = <<>> THEN <<>>
    ELSE IF Len(ss) = 1 THEN ss[1]
    ELSE ss[1] \o <<" ">> \o Join(Tail(ss))

\* composeTranscript without the trim of the result
composeTranscriptUntrimmed(finals, interim) ==
    LET base == Trim(Join(finals))
        sep == IF base # <<>> /\ interim # <<>> THEN <<" ">> ELSE <<>>
    IN  base \o sep \o interim

\* composeTranscript (page.tsx 33-36)
composeTranscript(finals, interim) ==
    LET base == Trim(Join(finals))
        sep == IF base # <<>> /\ interim # <<>> THEN <<" ">> ELSE <<>>
    IN  Trim(base \o sep \o interim)

\* String.prototype.startsWith
StartsWith(s, pre) == Len(pre) <= Len(s) /\ SubSeq(s, 1, Len(pre)) = pre

\* smoothInterim without the `if (!nextInterim) return ''` line
smoothInterimKeepsStale(prevInterim, nextInterim) ==
    IF prevInterim = <<>> THEN nextInterim
    ELSE IF StartsWith(prevInterim, nextInterim) /\ Len(prevInterim) > Len(nextInterim)
    THEN prevInterim
    ELSE nextInterim

\* smoothInterim (page.tsx 39-44)
smoothInterim(prevInterim, nextInterim) ==
    IF prevInterim = <<>> THEN nextInterim
    ELSE IF nextInterim = <<>> THEN <<>>
    ELSE IF StartsWith(prevInterim, nextInterim) /\ Len(prevInterim) > Len(nextInterim)
    THEN prevInterim
    ELSE nextInterim

\* Output samples are kept as the quotient the code computes, sum / count;
\* an input sample x is x / 1.
Sample(x) == [sum |-> x, count |-> 1]

\* count ? sum / count : 0   (page.tsx 80)
Average(sum, count) == IF count = 0 THEN Sample(0) ELSE [sum |-> sum, count |-> count]

\* The length of downsampleTo24kHz's result (page.tsx 65-67): the input's
\* length at 24000, Math.floor(samples.length / (srcRate / 24000)) otherwise.
DownsampleLen(n, srcRate) ==
    IF srcRate = TargetRate THEN n ELSE (n * TargetRate) \div srcRate

\* The loop condition with <= in place of <
InSpanInclusive(acc, i, srcRate) == acc * TargetRate <= (i + 1) * srcRate

\* acc < nextAcc, nextAcc being (i + 1) * ratio   (page.tsx 73, 75)
InSpan(acc, i, srcRate) == acc * TargetRate < (i + 1) * srcRate

\* The inner while loop (page.tsx 75-79); idx counts from 0, samples from 1
RECURSIVE TakeSpan(_, _, _, _, _, _, _)
TakeSpan(samples, srcRate, i, acc, idx, sum, count) ==
    IF InSpan(acc, i, srcRate) /\ idx < Len(samples)
    THEN TakeSpan(samples, srcRate, i, acc + 1, idx + 1,
                  sum + samples[idx + 1], count + 1)
    ELSE [acc |-> acc, idx |-> idx, sum |-> sum, count |-> count]

\* The for-loop over the output samples (page.tsx 72-81)
RECURSIVE DownLoop(_, _, _, _, _, _, _)
DownLoop(samples, srcRate, newLen, i, acc, idx, out) ==
    IF i >= newLen THEN out
    ELSE LET t == TakeSpan(samples, srcRate, i, acc, idx, 0, 0)
         IN  DownLoop(samples, srcRate, newLen, i + 1, t.acc, t.idx,
                      Append(out, Average(t.sum, t.count)))

\* downsampleTo24kHz (page.tsx 64-83)
downsampleTo24kHz(samples, srcRate) ==
    IF srcRate = TargetRate THEN [k \in 1..Len(samples) |-> Sample(samples[k])]
    ELSE DownLoop(samples, srcRate, DownsampleLen(Len(samples), srcRate), 0, 0, 0, <<>>)

\* Inputs of the pure helpers; a behaviour applies one helper to one input
Strs == UNION { [1..k -> Chars] : k \in 0..MaxStr }
FinalStrs == UNION { [1..k -> Chars] : k \in 0..MaxFinalStr }
FinalsLists == UNION { [1..k -> FinalStrs] : k \in 0..MaxFinals }
SampleBlocks == UNION { [1..k -> SampleValues] : k \in 0..MaxChunk }

CallCompose(finals, interim) ==
    /\ call' = [fn |-> "composeTranscript", finals |-> finals, interim |-> interim,
                result |-> composeTranscript(finals, interim)]
    /\ UNCHANGED << relayVars, recording, sampleRate, pendingSamples, sent,
                    received, emitted >>

CallSmooth(prevInterim, nextInterim) ==
    /\ call' = [fn |-> "smoothInterim", prev |-> prevInterim, next |-> nextInterim,
                result |-> smoothInterim(prevInterim, nextInterim),
                again |-> smoothInterim(smoothInterim(prevInterim, nextInterim),
                                        nextInterim)]
    /\ UNCHANGED << relayVars, recording, sampleRate, pendingSamples, sent,
                    received, emitted >>

CallDownsample(samples, srcRate) ==
    /\ call' = [fn |-> "downsampleTo24kHz", samples |-> samples, srcRate |-> srcRate,
                result |-> downsampleTo24kHz(samples, srcRate)]
    /\ UNCHANGED << relayVars, recording, sampleRate, pendingSamples, sent,
                    received, emitted >>

\* ---------------------------------------------------- frame accumulator
\* The client.audio.append of a frame of n samples (the payload is the
\* base64 of n 16-bit samples) and the client.flush
AudioFrame(n) == [type |-> "client.audio.append", samples |-> n]
FlushMsg == [type |-> "client.flush"]

\* start() (page.tsx 309-385): reads the context's sample rate and installs
\* the worklet handler and the flush timer
Start(rate) ==
    /\ ~recording
    /\ recording' = TRUE
    /\ sampleRate' = rate
    /\ sent' = <<>>
    /\ received' = 0
    /\ emitted' = 0
    /\ UNCHANGED << relayVars, pendingSamples, call >>

\* The size test with > in place of >=
ReachedThresholdStrict(n) == n > THRESHOLD_SAMPLES_24K

\* buf.length >= THRESHOLD_SAMPLES_24K   (page.tsx 366)
ReachedThreshold(n) == n >= THRESHOLD_SAMPLES_24K

\* node.port.onmessage (page.tsx 348-372), n being the length of the block
\* of samples posted by the worklet
OnSamples(n) ==
    /\ recording
    /\ LET down24 == DownsampleLen(n, sampleRate)
           buf == IF pendingSamples > 0 THEN pendingSamples + down24 ELSE down24
       IN  /\ received + down24 <= MaxSamples
           /\ received' = received + down24
           /\ IF ReachedThreshold(buf)
              THEN /\ sent' = << AudioFrame(down24) >>
                   /\ emitted' = emitted + down24
                   /\ pendingSamples' = 0
              ELSE /\ sent' = <<>>
                   /\ emitted' = emitted
                   /\ pendingSamples' = buf
    /\ UNCHANGED << relayVars, recording, sampleRate, call >>

\* The flush timer (page.tsx 380-382)
FlushTimer ==
    /\ recording
    /\ sent' = << FlushMsg >>
    /\ UNCHANGED << relayVars, recording, sampleRate, pendingSamples, received,
                    emitted, call >>

\* stop() (page.tsx 387-399)
Stop ==
    /\ recording
    /\ recording' = FALSE
    /\ pendingSamples' = 0
    /\ sent' = << FlushMsg >>
    /\ UNCHANGED << relayVars, sampleRate, received, emitted, call >>

\* ----------------------------------------------------------- specifications
Init ==
    /\ approxB64SinceCommit = 0
    /\ activeResponse = FALSE
    /\ language = [c \in Conns |-> "en"]
    /\ clientSock = [c \in Conns |-> "none"]
    /\ openaiSock = [c \in Conns |-> "none"]
    /\ wire = NoWire
    /\ last = [op |-> "init", conn |-> 0, msg |-> NoMsg, data |-> <<>>,
               approx |-> 0, active |-> FALSE, queued |-> FALSE]
    /\ up = <<>>
    /\ down = <<>>
    /\ outstanding = [c \in Conns |-> FALSE]
    /\ sinceCommit = [c \in Conns |-> 0]
    /\ queued = FALSE
    /\ recording = FALSE
    /\ sampleRate = DefaultRate
    /\ pendingSamples = 0
    /\ sent = <<>>
    /\ received = 0
    /\ emitted = 0
    /\ call = NoCall

Connect == \E c \in Conns : Connection(c)
UpstreamOpen == \E c \in Conns : OpenaiOpen(c)
ClientMessage == \E c \in Conns, msg \in ClientMsgs : ClientOnMessage(c, msg)
ProviderMessage ==
    \E c \in Conns, data \in GateFrames : OpenaiOnMessage(c, data)
ProviderError == \E c \in Conns : OpenaiError(c)
ClientClosed == \E c \in Conns : ClientClose(c)
ProviderClosed == \E c \in Conns : OpenaiClose(c)

Next ==
    \/ Connect
    \/ UpstreamOpen
    \/ ClientMessage
    \/ ProviderMessage
    \/ ProviderError
    \/ ClientClosed
    \/ ProviderClosed

Spec == Init /\ [][Next]_vars

\* One connection fed the provider's whole event vocabulary, a frame being
\* written line by line before the relay handles it.
NormConnect == Connection(1)
NormUpstreamOpen == OpenaiOpen(1)
NormProviderSend == \E line \in Lines : ProviderWrite(1, line)
NormProviderMessage == wire.conn = 1 /\ OpenaiOnMessage(1, wire.lines)

NextNorm ==
    \/ NormConnect
    \/ NormUpstreamOpen
    \/ NormProviderSend
    \/ NormProviderMessage

SpecNorm == Init /\ [][NextNorm]_vars

\* One connection with both directions live: every browser message, and
\* provider frames of the gate's lines, an error event and an event of a
\* type no branch names.
GateEvents ==
    GateLines \cup { Event("error", "", <<>>), Event("session.created", "", <<>>) }

GateConnect == Connection(1)
GateUpstreamOpen == OpenaiOpen(1)
GateClientMessage == \E msg \in ClientMsgs : ClientOnMessage(1, msg)
GateProviderMessage == \E data \in Frames(GateEvents) : OpenaiOnMessage(1, data)

NextGate ==
    \/ GateConnect
    \/ GateUpstreamOpen
    \/ GateClientMessage
    \/ GateProviderMessage

SpecGate == Init /\ [][NextGate]_vars

\* The page's recording loop: start, blocks of samples from the worklet, the
\* flush timer, stop.
PageStart == \E rate \in SrcRates : Start(rate)
WorkletSamples == \E n \in ChunkLens : OnSamples(n)
PageFlushTimer == FlushTimer
PageStop == Stop

NextAcc ==
    \/ PageStart
    \/ WorkletSamples
    \/ PageFlushTimer
    \/ PageStop

SpecAcc == Init /\ [][NextAcc]_vars

\* The pure helpers applied to every bounded input, one call per behaviour
Compose ==
    /\ call = NoCall
    /\ \E finals \in FinalsLists, interim \in Strs : CallCompose(finals, interim)
Smooth ==
    /\ call = NoCall
    /\ \E prevInterim \in Strs, nextInterim \in Strs : CallSmooth(prevInterim, nextInterim)
Downsample ==
    /\ call = NoCall
    /\ \E samples \in SampleBlocks, srcRate \in SrcRates : CallDownsample(samples, srcRate)

NextPure ==
    \/ Compose
    \/ Smooth
    \/ Downsample

SpecPure == Init /\ [][NextPure]_vars

\* =================================================================== claims
IsFlush == last.op = "client.message" /\ last.msg.parses /\ last.msg.type = "client.flush"
IsAppend ==
    /\ last.op = "client.message"
    /\ last.msg.parses
    /\ last.msg.type = "client.audio.append"
    /\ last.msg.isString

\* C1: on any one connection, after the relay issued a response.create it
\* issues no further response.create on that connection until a response.done
\* of that connection has been handled.
C1_AtMostOneOutstanding ==
    [][ \A c \in Conns :
          ( /\ last'.op = "client.message"
            /\ last'.conn = c
            /\ ResponseCreate \in Range(up') ) => ~outstanding[c] ]_vars

\* C2: a client.flush handled while the estimate is below the threshold sends
\* nothing upstream and leaves the estimate and the flag as they were,
\* whatever the flag's value.
C2_FlushBelowThresholdIsNoOp ==
    (IsFlush /\ last.approx < MIN_B64_FOR_100MS) =>
        /\ up = <<>>
        /\ down = <<>>
        /\ approxB64SinceCommit = last.approx
        /\ activeResponse = last.active

C2_Witness ==
    /\ IsFlush
    /\ last.approx > 0
    /\ last.approx < MIN_B64_FOR_100MS
    /\ last.active
    /\ up = <<>>

\* C3: a client.flush handled with the estimate at or above the threshold and
\* the gate Idle sends one commit followed by one response.create, moves the
\* gate to RequestInFlight and resets the estimate to zero.
C3_FlushIdleCommitsAndRequests ==
    (IsFlush /\ last.approx >= MIN_B64_FOR_100MS /\ ~last.active) =>
        /\ up = << Commit, ResponseCreate >>
        /\ activeResponse
        /\ approxB64SinceCommit = 0

C3_Witness ==
    /\ IsFlush
    /\ last.approx = MIN_B64_FOR_100MS
    /\ ~last.active
    /\ up = << Commit, ResponseCreate >>

\* C4: a client.flush handled with the estimate at or above the threshold
\* while the gate is RequestInFlight sends one commit and no response.create;
\* the gate stays RequestInFlight and the estimate is not reset.
C4_FlushInFlightCommitsOnly ==
    (IsFlush /\ last.approx >= MIN_B64_FOR_100MS /\ last.active) =>
        /\ up = << Commit >>
        /\ activeResponse
        /\ approxB64SinceCommit = last.approx

C4_Witness ==
    /\ IsFlush
    /\ last.approx >= MIN_B64_FOR_100MS
    /\ last.active
    /\ up = << Commit >>
    /\ approxB64SinceCommit = last.approx

\* C5: the estimate is never negative; a step changes it only by adding the
\* length of an appended payload or by setting it to zero, and it is set to
\* zero in exactly the flush steps that issue both a commit and a
\* response.create.
C5_EstimateGrowsOrResets ==
    /\ approxB64SinceCommit >= 0
    /\ IsAppend => approxB64SinceCommit = last.approx + last.msg.audio
    /\ (IsFlush /\ Commit \in Range(up) /\ ResponseCreate \in Range(up)) =>
           approxB64SinceCommit = 0
    /\ (approxB64SinceCommit # last.approx) =>
           \/ IsAppend
           \/ /\ IsFlush
              /\ up = << Commit, ResponseCreate >>
              /\ approxB64SinceCommit = 0

C5_Witness ==
    /\ IsFlush
    /\ last.approx > MIN_B64_FOR_100MS
    /\ approxB64SinceCommit = 0
    /\ up = << Commit, ResponseCreate >>

\* C6: with two connections open, no client message or provider event of one
\* connection changes the estimate or the flag that governs the other
\* connection's flush decisions.
C6_GateStateNotShared ==
    \A d \in Conns :
        ( /\ clientSock[d] = "open"
          /\ last.op \in {"client.message", "openai.message"}
          /\ last.conn # d ) =>
            /\ approxB64SinceCommit = last.approx
            /\ activeResponse = last.active

\* C7: every new browser connection starts with the gate Idle and the
\* estimate zero, whatever happened on connections opened or closed before.
C7_FreshGateAtConnectionOpen ==
    last.op = "connection" => (approxB64SinceCommit = 0 /\ ~activeResponse)

\* C8: for every commit issued upstream, the audio appended on that
\* connection since its previous commit (or since it opened) totals at least
\* the minimum-commit threshold.
C8_CommitCoversEnoughAudio ==
    [][ ( /\ last'.op = "client.message"
          /\ Commit \in Range(up') ) =>
            sinceCommit[last'.conn] >= MIN_B64_FOR_100MS ]_vars

\* ------------------------------------------------------- normalizer claims
DeltaShaped(m) ==
    \/ m.type \in { "response.content_part.added", "response.audio_transcript.delta",
                    "response.text.delta", "response.output_text.delta" }
    \/ (m.type = "response.delta" /\ m.sub = "output_text.delta")

DoneShaped(m) ==
    \/ m.type \in { "response.content_part.done", "response.audio_transcript.done",
                    "response.text.done", "response.output_text.done" }
    \/ (m.type = "response.completed" /\ m.sub = "output_text")

IsEvent(l) == l.kind = "event"

\* The events of a frame the loop gets to: those before the first line that
\* does not parse, up to and including the first event that ends the handler.
RECURSIVE Handled(_)
Handled(lines) ==
    IF lines = <<>> \/ ~IsEvent(Head(lines)) THEN <<>>
    ELSE IF Head(lines).type \in {"response.content_part.done", "error", "response.error"}
    THEN << Head(lines) >>
    ELSE << Head(lines) >> \o Handled(Tail(lines))

\* What the claim as stated has an event produce
StatedOutput(m) ==
    IF DeltaShaped(m) /\ m.text # <<>> THEN << Transcript("interim", m.text) >>
    ELSE IF DoneShaped(m) THEN << Transcript("final", Trim(m.text)) >>
    ELSE <<>>

\* What the amended claim has an event produce
AmendedOutput(m) ==
    IF DeltaShaped(m) /\ m.text # <<>> THEN << Transcript("interim", m.text) >>
    ELSE IF DoneShaped(m) /\ Trim(m.text) # <<>>
    THEN << Transcript("final", Trim(m.text)) >>
    ELSE IF m.type = "response.content_part.done" /\ m.text # <<>>
    THEN << Transcript("final", <<>>) >>
    ELSE <<>>

RECURSIVE StatedOutputs(_)
StatedOutputs(lines) ==
    IF lines = <<>> THEN <<>>
    ELSE StatedOutput(Head(lines)) \o StatedOutputs(Tail(lines))

RECURSIVE AmendedOutputs(_)
AmendedOutputs(lines) ==
    IF lines = <<>> THEN <<>>
    ELSE AmendedOutput(Head(lines)) \o AmendedOutputs(Tail(lines))

Events(lines) == SelectSeq(lines, IsEvent)

HelThenLo ==
    << Event("response.audio_transcript.delta", "", <<"h", "e", "l">>),
       Event("response.audio_transcript.done", "", <<" ", "l", "o", " ">>) >>

C10_DoneReturnsGateToIdle ==
    ( /\ last.op = "openai.message"
      /\ \E i \in DOMAIN last.data :
            /\ last.data[i].type = "response.done"
            /\ \A j \in 1..i : last.data[j].kind # "garbage"
            /\ \A j \in (i + 1)..Len(last.data) :
                  last.data[j].type # "response.created" )
    => ~activeResponse

IsErrorEvent(m) == m.type \in {"error", "response.error"}

ErrorFrame == last.op = "openai.message" /\ \E i \in DOMAIN last.data : IsErrorEvent(last.data[i])

\* C11: a provider error event (type error or response.error) puts no message
\* on the browser connection (a handled frame sends at most one message per
\* handled event that is not an error event, and a frame of error events sends
\* none), and after the frame both sockets of the connection are still open,
\* the relay still accepting a browser message and a provider frame on it.
C11_ErrorEventSendsNothingAndKeepsOpen ==
    last.op = "openai.message" =>
        LET h == Handled(NonBlank(last.data)) IN
        /\ Len(down) <= Len(SelectSeq(h, LAMBDA m : ~IsErrorEvent(m)))
        /\ (\A i \in DOMAIN h : IsErrorEvent(h[i])) => down = <<>>
        /\ ErrorFrame =>
              /\ clientSock[last.conn] = "open"
              /\ openaiSock[last.conn] = "open"
              /\ ENABLED ClientOnMessage(last.conn, [parses |-> TRUE, type |-> "client.flush"])
              /\ ENABLED OpenaiOnMessage(last.conn, << Event("response.done", "", <<>>) >>)

C11_Witness ==
    /\ last.op = "openai.message"
    /\ last.data = << Event("response.text.delta", "", <<"h", "e", "l">>),
                      Event("error", "", <<>>) >>
    /\ down = << Transcript("interim", <<"h", "e", "l">>) >>
    /\ openaiSock[last.conn] = "open"

\* C12: once the relay has handled the close of either socket of a
\* connection, or an error of its provider socket, neither socket of that
\* connection is still open (or still connecting); in particular the pair is
\* never left with exactly one side open.
C12_CascadingClose ==
    last.op \in {"client.close", "openai.close", "openai.error"} =>
        /\ clientSock[last.conn] # "open"
        /\ openaiSock[last.conn] \notin {"connecting", "open"}

Malformed(msg) ==
    \/ ~msg.parses
    \/ msg.type \notin {"config", "client.audio.append", "client.flush", "ping"}

\* C13: a browser message that does not parse, or whose type is none of
\* config, client.audio.append, client.flush and ping, sends nothing upstream
\* and nothing to the browser, leaves the estimate, the flag and every
\* connection's language as they were, and leaves both sockets of the
\* connection open.
C13_MalformedClientMessageIgnored ==
    [][ ( /\ last'.op = "client.message"
          /\ Malformed(last'.msg) ) =>
        /\ up' = <<>>
        /\ down' = <<>>
        /\ approxB64SinceCommit' = approxB64SinceCommit
        /\ activeResponse' = activeResponse
        /\ language' = language
        /\ clientSock'[last'.conn] = "open"
        /\ openaiSock'[last'.conn] = "open" ]_vars

C13_Witness ==
    /\ last.op = "client.message"
    /\ last.msg.parses
    /\ last.msg.type = "other"
    /\ last.approx >= MIN_B64_FOR_100MS
    /\ approxB64SinceCommit = last.approx
    /\ language[last.conn] = "ko"
    /\ up = <<>>

\* The lines of a frame before its first line that does not parse
RECURSIVE BeforeGarbage(_)
BeforeGarbage(lines) ==
    IF lines = <<>> \/ Head(lines).kind = "garbage" THEN <<>>
    ELSE << Head(lines) >> \o BeforeGarbage(Tail(lines))

\* The flag after the events es have been handled in order from flag act
RECURSIVE FlagAfter(_, _)
FlagAfter(es, act) ==
    IF es = <<>> THEN act
    ELSE FlagAfter(Tail(es),
                   IF Head(es).type = "response.created" THEN TRUE
                   ELSE IF Head(es).type = "response.done" THEN FALSE
                   ELSE act)

HasGarbage(lines) == \E i \in DOMAIN lines : lines[i].kind = "garbage"

\* C14: in a provider frame, the first line that does not parse ends the
\* handling of the frame: what is sent to the browser and the flag afterwards
\* are those of the handled lines before it, nothing comes from that line or
\* a later one, and a frame is handled this way whatever frame came before.
C14_UnparsableLineAbortsRestOfBatch ==
    ( last.op = "openai.message" /\ HasGarbage(last.data) ) =>
        LET h == Handled(BeforeGarbage(NonBlank(last.data))) IN
        /\ down = AmendedOutputs(h)
        /\ activeResponse = FlagAfter(h, last.active)
        /\ ENABLED OpenaiOnMessage(last.conn, << Event("response.done", "", <<>>) >>)

C14_Witness ==
    /\ last.op = "openai.message"
    /\ last.data = << Event("response.created", "", <<>>), Garbage >>
    /\ ~last.active
    /\ activeResponse

OneFinalEvent == << Event("response.content_part.done", "", <<"h", "e", "l">>) >>

\* C15: on a connection that has no request outstanding, a client.flush
\* arriving when the audio appended on that connection since it opened (or
\* since its last commit) is positive but below the threshold sends nothing
\* upstream and nothing to the browser; a client.flush arriving when that
\* audio has reached the threshold, the gate being idle, sends commit and
\* response.create upstream; and a provider frame of one final-shaped event
\* with non-empty text gives the browser exactly one final transcript.
C15_EndToEndFlushGate ==
    /\ [][ \A c \in Conns :
            ( /\ last'.op = "client.message"
              /\ last'.conn = c
              /\ last'.msg.parses
              /\ last'.msg.type = "client.flush"
              /\ ~outstanding[c] ) =>
            /\ ( sinceCommit[c] > 0 /\ sinceCommit[c] < MIN_B64_FOR_100MS ) =>
                  ( up' = <<>> /\ down' = <<>> )
            /\ ( sinceCommit[c] >= MIN_B64_FOR_100MS /\ ~activeResponse ) =>
                  up' = << Commit, ResponseCreate >> ]_vars
    /\ []( ( last.op = "openai.message" /\ last.data = OneFinalEvent ) =>
             down = << Transcript("final", <<"h", "e", "l">>) >> )

\* C16: each client.audio.append whose audio is a string sends exactly one
\* input_audio_buffer.append upstream carrying the same payload, whatever the
\* flag, adds exactly the payload's length to the estimate, sends nothing to
\* the browser and leaves the flag as it was.
C16_AppendForwardedAndCounted ==
    IsAppend =>
        /\ up = << [type |-> "input_audio_buffer.append", audio |-> last.msg.audio] >>
        /\ down = <<>>
        /\ approxB64SinceCommit = last.approx + last.msg.audio
        /\ activeResponse = last.active

C16_Witness ==
    /\ IsAppend
    /\ last.active
    /\ last.approx = 3200
    /\ last.msg.audio = 6400
    /\ approxB64SinceCommit = 9600
    /\ up = << AudioAppend(6400) >>

\* C17: while recording, the samples sent in frames plus the samples still
\* pending equal the resampled samples received, that is, every frame
\* carries all the samples accumulated since the previous frame and no
\* accumulated sample is dropped unsent.
C17_NoAccumulatedSampleDropped ==
    recording => emitted + pendingSamples = received

IsCompose == call.fn = "composeTranscript"

\* The finals joined with single spaces
JoinedFinals(finals) == Join(finals)

\* What the claim as stated has composeTranscript return
StatedCompose(finals, interim) ==
    LET j == JoinedFinals(finals)
    IN  TrimEnd(TrimStart(j \o (IF j # <<>> /\ interim # <<>> THEN <<" ">> ELSE <<>>)
                            \o interim))

\* What the amended claim has it return
AmendedCompose(finals, interim) ==
    LET b == TrimEnd(TrimStart(JoinedFinals(finals)))
    IN  TrimEnd(TrimStart(b \o (IF b # <<>> /\ interim # <<>> THEN <<" ">> ELSE <<>>)
                            \o interim))

ComposeExamples ==
    /\ ( call.finals = << <<"a">>, <<"b">> >> /\ call.interim = <<>> ) =>
          call.result = <<"a", " ", "b">>
    /\ ( call.finals = << <<"a">> >> /\ call.interim = <<"b">> ) =>
          call.result = <<"a", " ", "b">>
    /\ ( call.finals = <<>> /\ call.interim = <<>> ) => call.result = <<>>

\* C18 as stated: composeTranscript(finals, interim) is the finals joined with
\* single spaces, followed by a single space and the interim when the joined
\* finals and the interim are both non-empty, the whole trimmed; and
\* compose(["a","b"],"") = "a b", compose(["a"],"b") = "a b", compose([],"") = "".
C18_ComposeJoinsAppendsTrims ==
    IsCompose =>
        /\ call.result = StatedCompose(call.finals, call.interim)
        /\ ComposeExamples

\* C18 amended: composeTranscript(finals, interim) is the base, which is the
\* finals joined with single spaces and then trimmed, followed by a single
\* space and the interim when the base and the interim are both non-empty,
\* the whole trimmed; the three examples hold.
C18_ComposeTrimsBaseFirst ==
    IsCompose =>
        /\ call.result = AmendedCompose(call.finals, call.interim)
        /\ ComposeExamples

C18_Witness ==
    /\ IsCompose
    /\ call.finals = << <<"a">>, <<" ">> >>
    /\ call.interim = <<"b", " ">>
    /\ call.result = <<"a", " ", "b">>

IsSmooth == call.fn = "smoothInterim"

IsPrefixOf(pre, str) == \E k \in 0..Len(str) : SubSeq(str, 1, k) = pre

\* The cases of the claim, taken in the order it lists them
StatedSmooth(prevInterim, nextInterim) ==
    IF prevInterim = <<>> THEN nextInterim
    ELSE IF nextInterim = <<>> THEN <<>>
    ELSE IF IsPrefixOf(nextInterim, prevInterim) /\ Len(nextInterim) < Len(prevInterim)
    THEN prevInterim
    ELSE nextInterim

\* C19: smoothInterim(prev, next) is next when prev is empty, the empty
\* string when next is empty, prev when next is a strictly shorter prefix of
\* prev, and next otherwise; so the result always has next as a prefix, and
\* smoothing the result with the same next again returns the result.
C19_SmoothCasesPrefixIdempotent ==
    IsSmooth =>
        /\ call.result = StatedSmooth(call.prev, call.next)
        /\ IsPrefixOf(call.next, call.result)
        /\ call.again = call.result

C19_Witness ==
    /\ IsSmooth
    /\ call.prev = <<"a", "b">>
    /\ call.next = <<"a">>
    /\ call.result = <<"a", "b">>
    /\ call.again = <<"a", "b">>

IsDownsample == call.fn = "downsampleTo24kHz"

\* C20: at a source rate of 24000 downsampleTo24kHz returns its input sample
\* for sample; at 48000 the output has floor(n / 2) samples for an input of
\* n, output sample i (from 0) being the average of input samples 2i and
\* 2i + 1, so that 48000 input samples give 24000 output samples.
C20_DownsampleIdentityAndPairAverage ==
    IsDownsample =>
        /\ call.srcRate = 24000 =>
              /\ Len(call.result) = Len(call.samples)
              /\ \A k \in 1..Len(call.samples) :
                    call.result[k] = [sum |-> call.samples[k], count |-> 1]
        /\ call.srcRate = 48000 =>
              /\ Len(call.result) = Len(call.samples) \div 2
              /\ \A i \in 0..(Len(call.result) - 1) :
                    call.result[i + 1] =
                        [sum |-> call.samples[2 * i + 1] + call.samples[2 * i + 2],
                         count |-> 2]
              /\ DownsampleLen(48000, 48000) = 24000

C20_Witness ==
    /\ IsDownsample
    /\ call.srcRate = 48000
    /\ call.samples = <<1, 3, 0, 1>>
    /\ call.result = << [sum |-> 4, count |-> 2], [sum |-> 1, count |-> 2] >>

DoneHandled(data) ==
    \E i \in DOMAIN Handled(NonBlank(data)) :
        Handled(NonBlank(data))[i].type = "response.done"

\* A response.created is among them, with no response.done after it
CreatedLast(data) ==
    LET h == Handled(NonBlank(data)) IN
    \E i \in DOMAIN h :
        /\ h[i].type = "response.created"
        /\ \A j \in (i + 1)..Len(h) : h[j].type # "response.done"

\* C22: once a provider frame's response.created has been handled (no
\* response.done following it in the frame) the flag is true and the
\* estimate is what it was, whether or not the relay issued a
\* response.create; the flag then stays true in every step that does not
\* handle a response.done; and a flush handled meanwhile with the estimate at
\* or above the threshold sends a commit and no response.create.
C22_CreatedOpensGateIndependently ==
    [][ /\ ( last'.op = "openai.message" /\ CreatedLast(last'.data) ) =>
              ( activeResponse' /\ approxB64SinceCommit' = approxB64SinceCommit )
        /\ ( activeResponse /\ ~( last'.op = "openai.message"
                                   /\ DoneHandled(last'.data) ) ) =>
              activeResponse'
        /\ ( /\ activeResponse
             /\ last'.op = "client.message"
             /\ last'.msg.parses
             /\ last'.msg.type = "client.flush"
             /\ approxB64SinceCommit >= MIN_B64_FOR_100MS ) =>
              ( up' = << Commit >> /\ approxB64SinceCommit' = approxB64SinceCommit )
      ]_vars

C22_Witness ==
    /\ last.op = "openai.message"
    /\ last.data = << Event("response.created", "", <<>>) >>
    /\ ~last.active
    /\ \A c \in Conns : ~outstanding[c]
    /\ activeResponse
    /\ approxB64SinceCommit >= MIN_B64_FOR_100MS

\* A completion or error event is among the lines of frame data
CompletionOrError(data) ==
    \E i \in DOMAIN data : data[i].type \in {"response.done", "error", "response.error"}

\* C23: the flag goes from true to false only in a step that handles a
\* provider frame holding a completion or error event, never in a step that
\* handles a browser message or any other provider frame; and on a
\* connection on which the relay issued a response.create and whose provider
\* has delivered no completion since, no flush issues a response.create.
C23_NoTimeoutOnRequestInFlight ==
    [][ /\ ( activeResponse /\ ~activeResponse' ) =>
              ( last'.op = "openai.message" /\ CompletionOrError(last'.data) )
        /\ \A c \in Conns :
              ( /\ outstanding[c]
                /\ last'.op = "client.message"
                /\ last'.conn = c
                /\ last'.msg.parses
                /\ last'.msg.type = "client.flush" ) =>
              ( \A i \in DOMAIN up' : up'[i] # ResponseCreate )
      ]_vars

RecognizedTypes ==
    TextTypes \cup { "response.created", "response.done", "error", "response.error",
                     "response.delta", "response.completed" }

Unrecognized(l) == IsEvent(l) /\ l.type \notin RecognizedTypes

\* C25: a well-formed provider event of a type no branch names is ignored:
\* what a frame sends to the browser and the flag after it are those of the
\* same frame with such events removed, so the event itself sends nothing,
\* leaves the flag alone and does not keep the lines after it from being
\* handled; the estimate is what it was.
C25_UnrecognizedEventIgnored ==
    last.op = "openai.message" =>
        LET h == Handled(SelectSeq(NonBlank(last.data), LAMBDA l : ~Unrecognized(l))) IN
        /\ down = AmendedOutputs(h)
        /\ activeResponse = FlagAfter(h, last.active)
        /\ approxB64SinceCommit = last.approx

C25_Witness ==
    /\ last.op = "openai.message"
    /\ last.data = << Event("session.created", "", <<>>),
                      Event("response.content_part.done", "", <<"h", "e", "l">>) >>
    /\ last.active
    /\ activeResponse
    /\ approxB64SinceCommit = MIN_B64_FOR_100MS
    /\ down = << Transcript("final", <<"h", "e", "l">>) >>

\* C26: a provider error event (error or response.error) leaves the flag and
\* the estimate as the events handled before it in the frame left them; a
\* frame of nothing but an error event, handled while a request is in
\* flight, leaves the gate in flight.
C26_ErrorEventLeavesGateAlone ==
    last.op = "openai.message" =>
        LET h == Handled(NonBlank(last.data)) IN
        ( h # <<>> /\ IsErrorEvent(h[Len(h)]) ) =>
            /\ activeResponse = FlagAfter(SubSeq(h, 1, Len(h) - 1), last.active)
            /\ Len(h) = 1 => activeResponse = last.active
            /\ approxB64SinceCommit = last.approx

C26_Witness ==
    /\ last.op = "openai.message"
    /\ last.data = << Event("error", "", <<>>) >>
    /\ last.active
    /\ activeResponse
    /\ last.approx = MIN_B64_FOR_100MS
    /\ approxB64SinceCommit = MIN_B64_FOR_100MS
====
